---- MODULE Spec2Model ----
(***************************************************************************)
(* Model of backend/main.py: the /transcribe endpoint (transcribe_audio),  *)
(* its exception classes and the exception handlers registered on the app. *)
(*                                                                         *)
(* Requests are served by one asyncio event loop.  A request gives the     *)
(* loop up only at `await file.read(...)`; everything else, the blocking   *)
(* call model.transcribe(...) included, runs while it holds the loop.      *)
(*                                                                         *)
(* Spec serves one request at a time and draws every input of the request  *)
(* (filename, body, failures of the system, outcome of the engine) from    *)
(* the full sets below.  SpecConc lets requests overlap at every await and *)
(* draws their inputs from the smaller sets ConcFilenames, ConcBodies and  *)
(* ConcOutcomes.                                                           *)
(*                                                                         *)
(* Text is modelled as a sequence of fragments, so that the substring test *)
(* `"No such file" in str(e)` is a search for a fragment.  Filenames are   *)
(* sequences of characters, so that os.path.splitext and str.lower are     *)
(* computed as Python computes them.                                       *)
(* Sizes are scaled: CHUNK_SIZE stands for 1024 * 1024 bytes and           *)
(* SIZE_LIMIT for 1024 * 1024 * 1024 bytes.                                *)
(***************************************************************************)
EXTENDS Integers, Sequences, FiniteSets, TLC

\* ---------------------------------------------------------------- bounds
NumReqs == 2        \* request slots that can be in flight together
MaxBody == 7        \* largest upload body
NumNames == 2       \* names tempfile can pick from
MaxEnd == 2         \* largest segment end timestamp

\* ------------------------------------------------------ program constants
CHUNK_SIZE == 2     \* file.read(1024 * 1024)
SIZE_LIMIT == 4     \* file_size > 1024 * 1024 * 1024
HTTP_200_OK == 200
HTTP_400_BAD_REQUEST == 400
HTTP_500_INTERNAL_SERVER_ERROR == 500

Reqs == 1..NumReqs
NoReq == 0
Names == 1..NumNames
NoName == 0         \* temp_file = None
NoCode == "None"    \* error_code = None / no error_code in the body
NoStatus == 0       \* an exception that carries no status_code
NoText == <<>>      \* empty str / no text

\* ------------------------------------------------------------ text helpers
\* `fragment in text`
Contains(text, fragment) == \E i \in DOMAIN text : text[i] = fragment

Min(a, b) == IF a < b THEN a ELSE b

\* ------------------------------------------------------------- exceptions
\* class AudioProcessingError(Exception)
AudioProcessingError(message, status_code, error_code) ==
    [cls |-> "AudioProcessingError", message |-> message,
     status_code |-> status_code,
     error_code |-> IF error_code = NoCode THEN "AUDIO_PROCESSING_ERROR" ELSE error_code]

\* class FileValidationError(Exception)
FileValidationError(message, status_code, error_code) ==
    [cls |-> "FileValidationError", message |-> message,
     status_code |-> status_code,
     error_code |-> IF error_code = NoCode THEN "FILE_VALIDATION_ERROR" ELSE error_code]

\* any other exception (OSError, TypeError, KeyError, RuntimeError, ...):
\* a subclass of Exception with a message and nothing else
PyException(cls, message) ==
    [cls |-> cls, message |-> message, status_code |-> NoStatus, error_code |-> NoCode]

NoExc == PyException("NoExc", <<>>)

\* str(e)
Str(e) == e.message

\* ------------------------------------------------------ fixed message texts
MsgUnsupported == <<"Unsupported file format. Supported formats: MP3, WAV, M4A, OGG, FLAC">>
MsgTooLarge == <<"File size exceeds 1GB limit">>
MsgNoSpeech == <<"No speech detected in audio">>
MsgReadError == <<"Failed to read audio file">>
MsgTranscribe == <<"Failed to transcribe audio. Please ensure the file contains valid audio content.">>
MsgUnexpected == <<"An unexpected error occurred while processing the audio">>
MsgGlobal == <<"An unexpected error occurred">>

\* ------------------------------------------------------------- filenames
\* file.filename: None, or a str
NoFilename == [isNone |-> TRUE, chars |-> <<>>]
Name(chars) == [isNone |-> FALSE, chars |-> chars]

Filenames ==
    { NoFilename,
      Name(<<>>),                                       \* ""
      Name(<<"a", ".", "W", "A", "V">>),                \* "a.WAV"
      Name(<<"a", ".", "t", "x", "t">>),                \* "a.txt"
      Name(<<".", "m", "p", "3">>),                     \* ".mp3"
      Name(<<"a", ".", "w", "a", "v", "/", "b">>) }     \* "a.wav/b"

\* str.lower() on one character
LowerChar(c) ==
    CASE c = "W" -> "w"
      [] c = "A" -> "a"
      [] c = "V" -> "v"
      [] OTHER -> c

\* str.lower()
Lower(s) == [i \in DOMAIN s |-> LowerChar(s[i])]

\* str.rfind(c), 1-based; 0 when c does not occur
RFind(s, c) ==
    IF \E i \in DOMAIN s : s[i] = c
    THEN CHOOSE i \in DOMAIN s : s[i] = c /\ \A j \in DOMAIN s : s[j] = c => j <= i
    ELSE 0

\* os.path.splitext(p)[1] (genericpath._splitext with sep "/" and extsep "."):
\* the extension starts at the last dot after the last separator, and leading
\* dots of the last component do not start one
SplitExt(p) ==
    LET sepIndex == RFind(p, "/")
        dotIndex == RFind(p, ".")
    IN IF dotIndex > sepIndex
          /\ \E k \in (sepIndex + 1)..(dotIndex - 1) : p[k] # "."
       THEN SubSeq(p, dotIndex, Len(p))
       ELSE <<>>

\* keys of allowed_extensions
allowed_extensions ==
    { <<".", "m", "p", "3">>, <<".", "w", "a", "v">>, <<".", "m", "4", "a">>,
      <<".", "o", "g", "g">>, <<".", "f", "l", "a", "c">>, <<>> }

\* ------------------------------------------------------------- responses
ErrorBody(status_code, detail, error_code) ==
    [status_code |-> status_code, detail |-> detail, error_code |-> error_code,
     text |-> NoText, duration |-> 0]

\* TranscriptionResponse(text, duration) sent with status 200
TranscriptionResponse(text, duration) ==
    [status_code |-> HTTP_200_OK, detail |-> <<>>, error_code |-> NoCode,
     text |-> text, duration |-> duration]

NoResp == ErrorBody(NoStatus, <<>>, NoCode)

\* @app.exception_handler(AudioProcessingError)
audio_processing_exception_handler(exc) ==
    ErrorBody(exc.status_code, exc.message, exc.error_code)

\* @app.exception_handler(FileValidationError)
file_validation_exception_handler(exc) ==
    ErrorBody(exc.status_code, exc.message, exc.error_code)

\* @app.exception_handler(Exception)
global_exception_handler(exc) ==
    ErrorBody(HTTP_500_INTERNAL_SERVER_ERROR, MsgGlobal, "INTERNAL_SERVER_ERROR")

\* the handler the app picks for an exception that left transcribe_audio
HandleException(exc) ==
    CASE exc.cls = "AudioProcessingError" -> audio_processing_exception_handler(exc)
      [] exc.cls = "FileValidationError" -> file_validation_exception_handler(exc)
      [] OTHER -> global_exception_handler(exc)


\* ------------------------------------------------------------ the engine
\* what model.transcribe(path) gives back: None, or a dict that may lack keys;
\* text is a str, segments a list of segments (each reduced to its "end")
Result(isNone, hasText, text, hasSegments, segments) ==
    [isNone |-> isNone, hasText |-> hasText, text |-> text,
     hasSegments |-> hasSegments, segments |-> segments]

NoResult == Result(TRUE, FALSE, NoText, FALSE, <<>>)       \* None
EmptyDict == Result(FALSE, FALSE, NoText, FALSE, <<>>)     \* {}
SomeText == <<"This is a test transcription">>

SegmentLists ==
    {<<>>} \cup { <<a>> : a \in 1..MaxEnd } \cup { <<a, b>> : a, b \in 1..MaxEnd }

EngineResults ==
    { NoResult, EmptyDict,
      Result(FALSE, TRUE, SomeText, FALSE, <<>>) }          \* {"text": "..."}
    \cup { Result(FALSE, TRUE, t, TRUE, s) : t \in {NoText, SomeText}, s \in SegmentLists }

\* exceptions model.transcribe(path) raises
EngineErrors ==
    { PyException("RuntimeError",
                  <<"Failed to load audio: ", "No such file", " or directory">>),
      PyException("FileNotFoundError",
                  <<"[WinError 2] The system cannot find the file specified">>),
      PyException("PermissionError", <<"[Errno 13] Permission denied">>),
      PyException("Exception", <<"Processing error">>),
      PyException("RuntimeError", <<"CUDA out of memory">>) }

Returns(result) == [raises |-> FALSE, exc |-> NoExc, result |-> result]
Raises(exc) == [raises |-> TRUE, exc |-> exc, result |-> NoResult]

EngineOutcomes ==
    { Returns(res) : res \in EngineResults } \cup { Raises(e) : e \in EngineErrors }

\* exceptions of the operating system in tempfile, file.read, temp_file.write
\* and temp_file.close
IOErrors ==
    { PyException("OSError", <<"[Errno 28] No space left on device">>),
      PyException("FileNotFoundError",
                  <<"[Errno 2] ", "No such file", " or directory: '/tmp/tmpab12'">>) }

\* ------------------------------------------- the body of transcribe_audio
\* how a block of code ends: it falls through, returns a value, or raises
Next0 == [kind |-> "next", exc |-> NoExc, value |-> NoResp]
Return(value) == [kind |-> "return", exc |-> NoExc, value |-> value]
Raise(exc) == [kind |-> "raise", exc |-> exc, value |-> NoResp]

MsgTypeError == <<"expected str, bytes or os.PathLike object, not NoneType">>

\* file_ext = os.path.splitext(file.filename)[1].lower()
FileExt(filename) == Lower(SplitExt(filename.chars))

MsgNoFile == <<"No audio file provided">>

\* bool(file): UploadFile defines neither __bool__ nor __len__, so every
\* UploadFile is true, the one of an upload of zero bytes too
FileIsTrue == TRUE

\* file.content_type: None or '' (both <<>>), or a str
ContentTypes == { <<>>, <<"audio/wav">>, <<"AUDIO/WAV">>, <<"text/plain">> }

\* str.lower() on a content type
LowerType(t) ==
    [i \in DOMAIN t |-> IF t[i] = "AUDIO/WAV" THEN "audio/wav" ELSE t[i]]

\* content_type = file.content_type.lower() if file.content_type else ''
ContentType(t) == IF t # <<>> THEN LowerType(t) ELSE <<>>

\* allowed_extensions[file_ext]
AllowedTypes(file_ext) ==
    CASE file_ext = <<".", "m", "p", "3">> -> {"audio/mpeg", "audio/mp3"}
      [] file_ext = <<".", "w", "a", "v">> ->
             {"audio/wav", "audio/wave", "audio/x-wav", "audio/webm"}
      [] file_ext = <<".", "m", "4", "a">> -> {"audio/m4a", "audio/mp4", "audio/x-m4a"}
      [] file_ext = <<".", "o", "g", "g">> -> {"audio/ogg", "audio/vorbis"}
      [] file_ext = <<".", "f", "l", "a", "c">> -> {"audio/flac", "audio/x-flac"}
      [] file_ext = <<>> -> {"audio/wav", "audio/webm"}

\* content_type and not any(ct in content_type for ct in allowed_extensions[file_ext])
Mismatch(file_ext, content_type) ==
    /\ content_type # <<>>
    /\ ~\E ct \in AllowedTypes(file_ext) : Contains(content_type, ct)

\* ContentTypeCheck that rejects the upload on a mismatch
ContentTypeRejects(file_ext, content_type) ==
    IF Mismatch(file_ext, content_type)
    THEN Raise(FileValidationError(MsgUnsupported, HTTP_400_BAD_REQUEST,
                                   "UNSUPPORTED_FORMAT"))
    ELSE Next0

\* the test of the content type: a mismatch is logged (logger.warning) and
\* the call goes on
ContentTypeCheck(file_ext, content_type) == Next0

\* ValidateBlock without the test against the allow-list
ValidateBlockNoAllowList(filename, content_type) ==
    IF ~FileIsTrue
    THEN Raise(FileValidationError(MsgNoFile, HTTP_400_BAD_REQUEST, "NO_FILE_ERROR"))
    ELSE IF filename.isNone
         THEN Raise(PyException("TypeError", MsgTypeError))
         ELSE Next0

\* the statements before the try: `if not file`, the extension, the
\* allow-list and the content type
ValidateBlock(filename, content_type) ==
    IF ~FileIsTrue
    THEN Raise(FileValidationError(MsgNoFile, HTTP_400_BAD_REQUEST, "NO_FILE_ERROR"))
    ELSE IF filename.isNone
         THEN Raise(PyException("TypeError", MsgTypeError))
         ELSE IF FileExt(filename) \notin allowed_extensions
              THEN Raise(FileValidationError(MsgUnsupported, HTTP_400_BAD_REQUEST,
                                             "UNSUPPORTED_FORMAT"))
              ELSE ContentTypeCheck(FileExt(filename), ContentType(content_type))

\* `not result or not result.get("text")`
\* NoSpeech that asks only whether the result has a text, not whether the
\* text is empty
NoSpeechByKey(result) ==
    \/ result.isNone
    \/ ~result.hasText

NoSpeech(result) ==
    \/ result.isNone
    \/ ~result.hasText /\ ~result.hasSegments
    \/ ~result.hasText
    \/ result.text = NoText

\* Duration that takes the end of the first segment
DurationOfFirst(segments) == IF segments # <<>> THEN segments[1] ELSE 0

\* result["segments"][-1]["end"] if result["segments"] else 0
Duration(segments) == IF segments # <<>> THEN segments[Len(segments)] ELSE 0

\* the inner try: the call of the engine, the check for speech, the response
InnerTry(outcome) ==
    IF outcome.raises
    THEN Raise(outcome.exc)
    ELSE IF NoSpeech(outcome.result)
         THEN Raise(AudioProcessingError(MsgNoSpeech, HTTP_400_BAD_REQUEST,
                                         "NO_SPEECH_DETECTED"))
         ELSE IF ~outcome.result.hasSegments
              THEN Raise(PyException("KeyError", <<"'segments'">>))
              ELSE Return(TranscriptionResponse(outcome.result.text,
                                                Duration(outcome.result.segments)))

\* InnerExcept that looks at the type of the exception, not at its text
InnerExceptByType(e) ==
    IF e.cls = "FileNotFoundError"
    THEN FileValidationError(MsgReadError, HTTP_400_BAD_REQUEST, "FILE_READ_ERROR")
    ELSE AudioProcessingError(MsgTranscribe, HTTP_400_BAD_REQUEST, "TRANSCRIPTION_ERROR")

\* the inner `except Exception as e`
InnerExcept(e) ==
    IF Contains(Str(e), "No such file")
    THEN FileValidationError(MsgReadError, HTTP_400_BAD_REQUEST, "FILE_READ_ERROR")
    ELSE AudioProcessingError(MsgTranscribe, HTTP_400_BAD_REQUEST, "TRANSCRIPTION_ERROR")

\* the inner try with its except clause: every exception of the try is an
\* Exception, the AudioProcessingError it raises itself included
TranscribeBlock(outcome) ==
    LET t == InnerTry(outcome)
    IN IF t.kind = "raise" THEN Raise(InnerExcept(t.exc)) ELSE t

\* OuterExcept that puts str(e) in the message of the error it raises
OuterExceptWithText(e) ==
    IF e.cls \in {"AudioProcessingError", "FileValidationError"}
    THEN e
    ELSE AudioProcessingError(Str(e), HTTP_500_INTERNAL_SERVER_ERROR, "PROCESSING_ERROR")

\* the except clauses of the outer try
OuterExcept(e) ==
    IF e.cls \in {"AudioProcessingError", "FileValidationError"}
    THEN e
    ELSE AudioProcessingError(MsgUnexpected, HTTP_500_INTERNAL_SERVER_ERROR,
                              "PROCESSING_ERROR")

\* what the outer try/except makes of the way its body ended
OuterTry(ending) ==
    IF ending.kind = "raise" THEN Raise(OuterExcept(ending.exc)) ELSE ending

\* the response the client gets for the way transcribe_audio ended
ResponseOf(ending) ==
    IF ending.kind = "return" THEN ending.value ELSE HandleException(ending.exc)

\* LoopEnds that takes a short chunk for the end of the upload
LoopEndsOnShortChunk(n) == n < CHUNK_SIZE

\* `while chunk := await file.read(...)`: the loop ends on an empty chunk
LoopEnds(n) == n = 0

\* CountChunk that tests the total before the chunk is added to it
CountChunkLate(file_size, n) ==
    IF file_size > SIZE_LIMIT
    THEN Raise(FileValidationError(MsgTooLarge, HTTP_400_BAD_REQUEST, "FILE_TOO_LARGE"))
    ELSE Next0

\* CountChunk with >= for >
CountChunkAtLimit(file_size, n) ==
    IF file_size + n >= SIZE_LIMIT
    THEN Raise(FileValidationError(MsgTooLarge, HTTP_400_BAD_REQUEST, "FILE_TOO_LARGE"))
    ELSE Next0

\* one turn of the streaming loop on a chunk of n > 0 bytes, up to the write
\* file_size += len(chunk); if file_size > limit: raise ...
CountChunk(file_size, n) ==
    IF file_size + n > SIZE_LIMIT
    THEN Raise(FileValidationError(MsgTooLarge, HTTP_400_BAD_REQUEST, "FILE_TOO_LARGE"))
    ELSE Next0

\* temp_file.write(chunk): the bytes the transient file holds afterwards
WriteChunk(written, n) == written + n

\* FreeNames that does not look at the files that exist
FreeNamesAny(files) == Names

\* the names tempfile.NamedTemporaryFile can give a new file: it creates the
\* file exclusively, so never under the name of a file that exists
FreeNames(files) == Names \ files

\* CleanupExcept that lets the exception of os.unlink out of the finally clause
CleanupLetsOut(ending, e) == Raise(e)

\* the try/except around os.unlink in the finally clause: the exception is
\* logged, and the call goes on ending the way it was ending
CleanupExcept(ending, e) == ending

\* NeedsUnlink with the test of existence negated
NeedsUnlinkIfAbsent(temp_file, files) == temp_file # NoName /\ temp_file \notin files

\* finally: `if temp_file and os.path.exists(temp_file.name)`
NeedsUnlink(temp_file, files) == temp_file # NoName /\ temp_file \in files


\* ------------------------------------------------------------------ state
VARIABLES
    running,    \* the request that holds the event loop, or NoReq
    disk,       \* the names of the transient files that exist
    req         \* per request slot: the locals of its transcribe_audio call

vars == <<running, disk, req>>

NoFault == [stage |-> "none", exc |-> NoExc]
NotCalled == [called |-> FALSE, outcome |-> Returns(NoResult)]

\* a slot no request occupies
IdleReq ==
    [ pc |-> "idle",            \* idle, alloc, await_read, close, transcribe,
                                \* finally, responded
      filename |-> NoFilename,  \* file.filename
      content_type |-> <<>>,    \* file.content_type
      warned |-> FALSE,         \* the content type mismatch warning was logged
      bodyLeft |-> 0,           \* bytes of the upload not read yet
      file_ext |-> <<>>,
      temp_file |-> NoName,     \* temp_file.name, NoName while temp_file is None
      handleOpen |-> FALSE,     \* temp_file is open for writing
      file_size |-> 0,
      written |-> 0,            \* bytes in the transient file
      ending |-> Next0,         \* how the call ended (return / raise)
      fault |-> NoFault,        \* the exception the environment raised, if any
      engine |-> NotCalled,     \* what model.transcribe did, if called
      calls |-> 0,              \* calls of model.transcribe
      unlinkFailed |-> FALSE,   \* os.unlink raised in the finally clause
      resp |-> NoResp ]         \* the response sent

Init ==
    /\ running = NoReq
    /\ disk = {}
    /\ req = [r \in Reqs |-> IdleReq]

Set(r, rec) == req' = [req EXCEPT ![r] = rec]

\* A request arrives and runs up to the try statement: the log line, the test
\* of `file`, the extension and the allow-list.  An exception raised here is
\* outside the try: no except clause and no finally clause sees it.
Validate(r, filenames, types, bodies) ==
    /\ running = NoReq
    /\ req[r].pc = "idle"
    /\ \E fn \in filenames, ct \in types, body \in bodies :
         LET v == ValidateBlock(fn, ct)
             arrived == [req[r] EXCEPT !.filename = fn, !.content_type = ct,
                                       !.bodyLeft = body]
         IN IF v.kind = "raise"
            THEN Set(r, [arrived EXCEPT
                            !.pc = "responded", !.ending = v, !.resp = ResponseOf(v),
                            !.fault = IF v.exc.cls = "FileValidationError"
                                      THEN NoFault
                                      ELSE [stage |-> "validate", exc |-> v.exc]])
            ELSE Set(r, [arrived EXCEPT
                            !.pc = "alloc", !.file_ext = FileExt(fn),
                            !.warned = Mismatch(FileExt(fn), ContentType(ct))])
    /\ running' = r
    /\ UNCHANGED disk

\* temp_file = tempfile.NamedTemporaryFile(delete=False, suffix=file_ext);
\* file_size = 0; then the first `await file.read(...)`
Alloc(r) ==
    /\ running = r
    /\ req[r].pc = "alloc"
    /\ \/ \E name \in FreeNames(disk) :
            /\ disk' = disk \cup {name}
            /\ Set(r, [req[r] EXCEPT !.pc = "await_read", !.temp_file = name,
                                     !.handleOpen = TRUE, !.file_size = 0])
            /\ running' = NoReq
       \/ \E e \in IOErrors :
            /\ Set(r, [req[r] EXCEPT !.pc = "finally", !.ending = OuterTry(Raise(e)),
                                     !.fault = [stage |-> "alloc", exc |-> e]])
            /\ UNCHANGED <<disk, running>>

\* `await file.read(1024 * 1024)` completes and the loop body runs up to the
\* next await: the chunk is counted, checked against the limit and written.
ReadChunk(r) ==
    /\ running = NoReq
    /\ req[r].pc = "await_read"
    /\ UNCHANGED disk
    /\ LET n == Min(CHUNK_SIZE, req[r].bodyLeft)
           counted == CountChunk(req[r].file_size, n)
           got == [req[r] EXCEPT !.bodyLeft = @ - n, !.file_size = @ + n]
       IN \/ \* file.read raises
             \E e \in IOErrors :
               /\ Set(r, [req[r] EXCEPT !.pc = "finally", !.ending = OuterTry(Raise(e)),
                                        !.fault = [stage |-> "read", exc |-> e]])
               /\ running' = r
          \/ \* the chunk is empty: the loop ends
             /\ LoopEnds(n)
             /\ Set(r, [req[r] EXCEPT !.pc = "close"])
             /\ running' = r
          \/ \* the chunk takes the total over the limit
             /\ ~LoopEnds(n)
             /\ counted.kind = "raise"
             /\ Set(r, [got EXCEPT !.pc = "finally", !.ending = OuterTry(counted)])
             /\ running' = r
          \/ \* the chunk is written, and the next read awaited
             /\ ~LoopEnds(n)
             /\ counted.kind = "next"
             /\ Set(r, [got EXCEPT !.written = WriteChunk(@, n)])
             /\ running' = NoReq
          \/ \* temp_file.write raises
             /\ ~LoopEnds(n)
             /\ counted.kind = "next"
             /\ \E e \in IOErrors :
                  Set(r, [got EXCEPT !.pc = "finally", !.ending = OuterTry(Raise(e)),
                                     !.fault = [stage |-> "write", exc |-> e]])
             /\ running' = r

\* temp_file.close()
Close(r) ==
    /\ running = r
    /\ req[r].pc = "close"
    /\ UNCHANGED <<disk, running>>
    /\ \/ Set(r, [req[r] EXCEPT !.pc = "transcribe", !.handleOpen = FALSE])
       \/ \E e \in IOErrors :
            Set(r, [req[r] EXCEPT !.pc = "finally", !.ending = OuterTry(Raise(e)),
                                  !.fault = [stage |-> "close", exc |-> e]])

\* result = model.transcribe(temp_file.name) and the rest of the inner try,
\* with its except clause and the except clauses of the outer try
Transcribe(r, outcomes) ==
    /\ running = r
    /\ req[r].pc = "transcribe"
    /\ UNCHANGED <<disk, running>>
    /\ \E o \in outcomes :
         Set(r, [req[r] EXCEPT !.pc = "finally",
                               !.engine = [called |-> TRUE, outcome |-> o],
                               !.calls = @ + 1,
                               !.ending = OuterTry(TranscribeBlock(o))])

\* the finally clause, after which the call returns or raises and the
\* response goes out
Finally(r) ==
    /\ running = r
    /\ req[r].pc = "finally"
    /\ UNCHANGED running
    /\ LET out(ending) == [req[r] EXCEPT !.pc = "responded", !.ending = ending,
                                         !.resp = ResponseOf(ending)]
       IN IF NeedsUnlink(req[r].temp_file, disk)
          THEN \/ \* os.unlink(temp_file.name)
                  /\ disk' = disk \ {req[r].temp_file}
                  /\ Set(r, out(req[r].ending))
               \/ \* os.unlink raises; the except clause logs it
                  /\ disk' = disk
                  /\ \E e \in IOErrors :
                       Set(r, [out(CleanupExcept(req[r].ending, e))
                                  EXCEPT !.unlinkFailed = TRUE])
          ELSE /\ disk' = disk
               /\ Set(r, out(req[r].ending))

\* the request is over: its locals are gone and the loop is free
Release(r) ==
    /\ running = r
    /\ req[r].pc = "responded"
    /\ Set(r, IdleReq)
    /\ running' = NoReq
    /\ UNCHANGED disk

\* no request is in flight
Quiet == \A q \in Reqs : req[q].pc = "idle"

Bodies == 0..MaxBody

\* one request at a time, every input
Next ==
    \E r \in Reqs :
        \/ Quiet /\ Validate(r, Filenames, ContentTypes, Bodies)
        \/ Alloc(r)
        \/ ReadChunk(r)
        \/ Close(r)
        \/ Transcribe(r, EngineOutcomes)
        \/ Finally(r)
        \/ Release(r)

Spec == Init /\ [][Next]_vars

\* the inputs of overlapping requests
ConcFilenames == { Name(<<"a", ".", "W", "A", "V">>), Name(<<"a", ".", "t", "x", "t">>) }
ConcTypes == { <<"audio/wav">> }
ConcBodies == { CHUNK_SIZE, SIZE_LIMIT + 1 }
ConcOutcomes ==
    { Returns(Result(FALSE, TRUE, SomeText, TRUE, <<1>>)),
      Returns(NoResult),
      Raises(PyException("Exception", <<"Processing error">>)) }

\* requests overlap at every await
NextConc ==
    \E r \in Reqs :
        \/ Validate(r, ConcFilenames, ConcTypes, ConcBodies)
        \/ Alloc(r)
        \/ ReadChunk(r)
        \/ Close(r)
        \/ Transcribe(r, ConcOutcomes)
        \/ Finally(r)
        \/ Release(r)

SpecConc == Init /\ [][NextConc]_vars


\* ================================================================ claims
Responded(r) == req[r].pc = "responded"
Allocated(r) == req[r].temp_file # NoName
Is(r, status_code, error_code) ==
    req[r].resp.status_code = status_code /\ req[r].resp.error_code = error_code
EngineRaised(r) == req[r].engine.called /\ req[r].engine.outcome.raises
EngineReturned(r) == req[r].engine.called /\ ~req[r].engine.outcome.raises
\* the size of the upload: what was read and what was not
BodySize(r) == req[r].file_size + req[r].bodyLeft
\* the allow-list as the specification lists it
ListedExtensions ==
    { <<".", "m", "p", "3">>, <<".", "w", "a", "v">>, <<".", "m", "4", "a">>,
      <<".", "o", "g", "g">>, <<".", "f", "l", "a", "c">>, <<>> }
HasListedExtension(r) ==
    ~req[r].filename.isNone /\ FileExt(req[r].filename) \in ListedExtensions
HasUnlistedExtension(r) ==
    ~req[r].filename.isNone /\ FileExt(req[r].filename) \notin ListedExtensions

\* C1 as stated: once a request that allocated a transient file has its
\* response, the file is not on disk, whatever the exit path.
C1_FileGoneOnEveryExit ==
    \A r \in Reqs : Responded(r) /\ Allocated(r) => req[r].temp_file \notin disk

\* C1, amended: once a request that allocated a transient file has its
\* response, the file is not on disk unless os.unlink itself raised in the
\* finally clause (which is logged and changes nothing else).
C1_FileGoneUnlessUnlinkRaised ==
    \A r \in Reqs :
        Responded(r) /\ Allocated(r) /\ ~req[r].unlinkFailed
            => req[r].temp_file \notin disk

C1_Witness ==
    \E r \in Reqs :
        /\ Responded(r) /\ Allocated(r) /\ ~req[r].unlinkFailed
        /\ req[r].temp_file \notin disk
        /\ EngineRaised(r)

\* C2 as stated: when the engine returns no result or a result whose text is
\* empty, the response is 400 NO_SPEECH_DETECTED.
C2_NoSpeechDetected ==
    \A r \in Reqs :
        /\ Responded(r) /\ EngineReturned(r)
        /\ \/ req[r].engine.outcome.result.isNone
           \/ req[r].engine.outcome.result.text = NoText
        => Is(r, 400, "NO_SPEECH_DETECTED")

\* C3: the transient file never holds more than the ceiling; the total
\* passes the ceiling by at most the one chunk that crosses it, that chunk is
\* not written, the request is then on its way out with FILE_TOO_LARGE, and
\* no read is awaited any more.
C3_StreamBounded ==
    \A r \in Reqs :
        /\ req[r].written <= SIZE_LIMIT
        /\ req[r].written <= req[r].file_size
        /\ req[r].pc \in {"await_read", "close", "transcribe"}
               => req[r].file_size <= SIZE_LIMIT
        /\ req[r].file_size > SIZE_LIMIT
               => /\ req[r].pc \in {"finally", "responded"}
                  /\ req[r].ending.kind = "raise"
                  /\ req[r].ending.exc.error_code = "FILE_TOO_LARGE"
                  /\ req[r].file_size - req[r].written <= CHUNK_SIZE
                  /\ ~req[r].engine.called

C3_Witness ==
    \E r \in Reqs :
        /\ Responded(r)
        /\ req[r].file_size > SIZE_LIMIT
        /\ req[r].written = SIZE_LIMIT
        /\ req[r].bodyLeft > 0

\* C4 as stated: an upload with an accepted extension is answered
\* 400 FILE_TOO_LARGE if and only if its body is larger than the ceiling, and
\* then the engine is not invoked.
C4_TooLargeIffOverCeiling ==
    \A r \in Reqs :
        Responded(r) /\ HasListedExtension(r)
            => /\ Is(r, 400, "FILE_TOO_LARGE") <=> BodySize(r) > SIZE_LIMIT
               /\ Is(r, 400, "FILE_TOO_LARGE") => ~req[r].engine.called

\* C4, amended: an upload with an accepted extension is answered
\* 400 FILE_TOO_LARGE if and only if its body is larger than the ceiling and
\* neither the allocation of the transient file nor a read or write before
\* the crossing chunk failed; then the engine is not invoked.
C4_TooLargeIffOverCeilingAndNoFault ==
    \A r \in Reqs :
        Responded(r) /\ HasListedExtension(r)
            => /\ Is(r, 400, "FILE_TOO_LARGE")
                    <=> (BodySize(r) > SIZE_LIMIT /\ req[r].fault.stage = "none")
               /\ Is(r, 400, "FILE_TOO_LARGE") => ~req[r].engine.called

C4_Witness ==
    \E r \in Reqs :
        /\ Responded(r) /\ HasListedExtension(r)
        /\ BodySize(r) = SIZE_LIMIT + 1
        /\ Is(r, 400, "FILE_TOO_LARGE")

\* C5: a request whose filename has an extension outside the allow-list is
\* answered 400 UNSUPPORTED_FORMAT with no byte of the body read, no
\* transient file allocated and the engine not invoked.
C5_UnlistedExtensionRejectedFirst ==
    \A r \in Reqs :
        req[r].pc # "idle" /\ HasUnlistedExtension(r)
            => /\ Responded(r)
               /\ Is(r, 400, "UNSUPPORTED_FORMAT")
               /\ req[r].file_size = 0
               /\ req[r].written = 0
               /\ ~Allocated(r)
               /\ ~req[r].engine.called

C5_Witness ==
    \E r \in Reqs :
        /\ Responded(r) /\ HasUnlistedExtension(r)
        /\ Is(r, 400, "UNSUPPORTED_FORMAT")
        /\ req[r].bodyLeft > SIZE_LIMIT

\* C6 as stated: a request whose filename is absent or empty is answered
\* UNSUPPORTED_FORMAT before anything is read.
C6_MissingFilenameRejected ==
    \A r \in Reqs :
        req[r].pc # "idle" /\ (req[r].filename.isNone \/ req[r].filename.chars = <<>>)
            => /\ Responded(r)
               /\ req[r].resp.error_code = "UNSUPPORTED_FORMAT"
               /\ req[r].file_size = 0

\* a failure of the engine that is a file-not-found or unreadable condition
FileCondition(e) ==
    \/ e.cls \in {"FileNotFoundError", "PermissionError"}
    \/ Contains(Str(e), "No such file")

C8_EngineFailureIs500 ==
    \A r \in Reqs :
        /\ Responded(r) /\ EngineRaised(r)
        /\ ~FileCondition(req[r].engine.outcome.exc)
        => /\ req[r].resp.status_code = 500
           /\ Contains(req[r].resp.detail, "Processing error")

\* the messages the code writes out in full
FixedDetails ==
    { MsgUnsupported, MsgTooLarge, MsgNoSpeech, MsgReadError, MsgTranscribe,
      MsgUnexpected, MsgGlobal }

\* the exceptions the environment raised in request r
RaisedIn(r) ==
    (IF req[r].fault.stage # "none" THEN {req[r].fault.exc} ELSE {})
    \cup (IF EngineRaised(r) THEN {req[r].engine.outcome.exc} ELSE {})

C10_StreamFailureIsFileReadError ==
    \A r \in Reqs :
        Responded(r) /\ req[r].fault.stage \in {"read", "write"}
            => /\ req[r].resp.status_code \in 400..499
               /\ req[r].resp.error_code = "FILE_READ_ERROR"

\* C11 as stated: every exception of the system raised anywhere in
\* transcribe_audio, the extraction of the extension included, is turned at
\* the boundary of the pipeline into 500 PROCESSING_ERROR and does not leave
\* transcribe_audio as it is.
C11_EveryFaultIsProcessingError ==
    \A r \in Reqs :
        Responded(r) /\ req[r].fault.stage # "none"
            => /\ Is(r, 500, "PROCESSING_ERROR")
               /\ req[r].ending.exc.cls = "AudioProcessingError"

\* the engine returned a dict with a non-empty text
EngineGaveText(r) ==
    /\ EngineReturned(r)
    /\ ~req[r].engine.outcome.result.isNone
    /\ req[r].engine.outcome.result.hasText
    /\ req[r].engine.outcome.result.text # NoText

\* the last element of a list, 0 for the empty list
LastOrZero(s) == IF Len(s) = 0 THEN 0 ELSE s[Len(s)]

\* C12 as stated: when the engine returns non-empty text, the response is 200
\* with that text and with the end of the last segment as duration, 0 when
\* there is no segment.
C12_SuccessWheneverText ==
    \A r \in Reqs :
        Responded(r) /\ EngineGaveText(r)
            => /\ req[r].resp.status_code = 200
               /\ req[r].resp.text = req[r].engine.outcome.result.text
               /\ req[r].resp.duration = LastOrZero(req[r].engine.outcome.result.segments)

\* C12, amended: when the engine returns non-empty text and a list of
\* segments (the key "segments" is there), the response is 200 with that text
\* and with the end of the last segment as duration, 0 when the list is empty.
C12_SuccessWheneverTextAndSegments ==
    \A r \in Reqs :
        Responded(r) /\ EngineGaveText(r) /\ req[r].engine.outcome.result.hasSegments
            => /\ req[r].resp.status_code = 200
               /\ req[r].resp.text = req[r].engine.outcome.result.text
               /\ req[r].resp.duration = LastOrZero(req[r].engine.outcome.result.segments)

C12_Witness ==
    \E r \in Reqs :
        /\ Responded(r) /\ EngineGaveText(r)
        /\ req[r].engine.outcome.result.segments = <<2, 1>>
        /\ req[r].resp.status_code = 200
        /\ req[r].resp.duration = 1

\* request r is inside model.transcribe: its file is closed and the call has
\* not returned
InEngineCall(r) == req[r].pc = "transcribe"

\* C13 as stated: while one request is inside the engine call, the pending
\* chunk read of every other request in flight can complete.
C13_ReadsProgressDuringEngineCall ==
    \A r, q \in Reqs :
        r # q /\ InEngineCall(r) /\ req[q].pc = "await_read"
            => ENABLED ReadChunk(q)

\* C14: the finally clause never changes the way the call ends: whether
\* os.unlink succeeds or raises, the call ends as it was ending before the
\* clause, and the response is the one of that ending.
C14_CleanupNeverChangesOutcome ==
    [][\A r \in Reqs :
          req[r].pc = "finally" /\ req'[r].pc = "responded"
              => /\ req'[r].ending = req[r].ending
                 /\ req'[r].resp = ResponseOf(req[r].ending)]_vars

C14_Witness ==
    \E r \in Reqs :
        /\ Responded(r) /\ req[r].unlinkFailed
        /\ req[r].temp_file \in disk
        /\ req[r].resp.status_code = 200

\* C15 as stated: an upload of zero bytes is answered 400 NO_FILE_ERROR and
\* the engine is not invoked for it.
C15_EmptyFileIsNoFileError ==
    \A r \in Reqs :
        req[r].pc # "idle" /\ HasListedExtension(r) /\ BodySize(r) = 0
            => /\ Responded(r)
               /\ Is(r, 400, "NO_FILE_ERROR")
               /\ ~req[r].engine.called

\* validation rejected the request
Rejected(r) == Responded(r) /\ ~Allocated(r) /\ req[r].fault.stage # "alloc"

\* C16: whether validation rejects depends on the lowercased extension of the
\* filename alone: a request is rejected by validation exactly when that
\* extension is not listed, whatever content type it declares; any other
\* filename with the same extension and any other content type get the same
\* verdict; and a request whose content type does not match is not rejected.
C16_VerdictByExtensionAlone ==
    \A r \in Reqs :
        req[r].pc # "idle" /\ ~req[r].filename.isNone
            => /\ Rejected(r) <=> FileExt(req[r].filename) \notin ListedExtensions
               /\ Rejected(r) => Is(r, 400, "UNSUPPORTED_FORMAT")
               /\ \A fn \in Filenames, ct \in ContentTypes :
                      ~fn.isNone /\ FileExt(fn) = FileExt(req[r].filename)
                          => (ValidateBlock(fn, ct).kind = "raise" <=> Rejected(r))
               /\ req[r].warned => ~Rejected(r)

C16_Witness ==
    \E r \in Reqs :
        /\ Responded(r)
        /\ FileExt(req[r].filename) = <<".", "w", "a", "v">>
        /\ req[r].content_type = <<"text/plain">>
        /\ req[r].warned
        /\ req[r].resp.status_code = 200

\* C17: the engine is called at most once in a request, and only for a
\* request that passed validation, whose body was read to its end into the
\* transient file and whose file was closed; while a request validates,
\* streams or closes, the engine has not been called for it; and a request
\* answered 200 had the engine called exactly once.
C17_StagesInOrder ==
    \A r \in Reqs :
        /\ req[r].calls <= 1
        /\ req[r].calls = 1
               => /\ HasListedExtension(r)
                  /\ Allocated(r)
                  /\ req[r].bodyLeft = 0
                  /\ req[r].written = req[r].file_size
                  /\ ~req[r].handleOpen
                  /\ req[r].pc \in {"finally", "responded"}
        /\ req[r].pc \in {"idle", "alloc", "await_read", "close", "transcribe"}
               => req[r].calls = 0 /\ req[r].resp = NoResp
        /\ req[r].pc \in {"await_read", "close"}
               => HasListedExtension(r) /\ Allocated(r) /\ req[r].handleOpen
        /\ req[r].pc = "transcribe" => req[r].bodyLeft = 0 /\ ~req[r].handleOpen
        /\ Responded(r) /\ req[r].resp.status_code = 200 => req[r].calls = 1

C17_Witness ==
    \E r \in Reqs :
        /\ Responded(r)
        /\ req[r].resp.status_code = 200
        /\ req[r].calls = 1
        /\ req[r].file_size = SIZE_LIMIT

\* request r is between the allocation of its transient file and its
\* finally clause
Owns(r) == req[r].pc \in {"await_read", "close", "transcribe", "finally"}

\* C18: under every interleaving, two requests never hold the same transient
\* file; the file of a request exists while the request streams, closes and
\* is in the engine call; and a transient file that a request holds leaves
\* the disk only in the finally clause of that request.
C18_FilesAreOwnedByOneRequest ==
    /\ [](\A r, q \in Reqs :
            r # q /\ Allocated(r) /\ Allocated(q)
                => req[r].temp_file # req[q].temp_file)
    /\ [](\A r \in Reqs :
            req[r].pc \in {"await_read", "close", "transcribe"}
                => Allocated(r) /\ req[r].temp_file \in disk)
    /\ [][\A r \in Reqs :
            Owns(r) /\ Allocated(r) /\ req[r].temp_file \in disk
                    /\ req[r].temp_file \notin disk'
                => req[r].pc = "finally" /\ req'[r].pc = "responded"]_vars

C18_Witness ==
    \E r, q \in Reqs :
        /\ r # q
        /\ InEngineCall(r)
        /\ req[q].pc = "await_read"
        /\ req[r].temp_file \in disk /\ req[q].temp_file \in disk
        /\ req[r].temp_file # req[q].temp_file

\* C19 as stated: on every exit after the transient file was allocated, the
\* write handle of the file has been closed when the request has its response.
C19_HandleClosedOnEveryExit ==
    \A r \in Reqs :
        Responded(r) /\ Allocated(r) => ~req[r].handleOpen

\* C20: every 200 response carries a text that is not empty.
C20_SuccessHasText ==
    \A r \in Reqs :
        Responded(r) /\ req[r].resp.status_code = HTTP_200_OK
            => req[r].resp.text # NoText

C20_Witness ==
    \E r \in Reqs :
        /\ Responded(r) /\ EngineReturned(r)
        /\ req[r].engine.outcome.result.hasSegments
        /\ req[r].engine.outcome.result.segments = <<>>
        /\ req[r].resp.status_code = HTTP_200_OK
        /\ req[r].resp.text = SomeText
        /\ req[r].resp.duration = 0

====
